---- MODULE Spec2Model ----
(***************************************************************************)
(* Minesweeper board (MinesweeperBoard) and constraint solver              *)
(* (CSPStrategy) of src/mines.py, with the driving loop                    *)
(* play_minesweeper_ai.                                                    *)
(*                                                                         *)
(* A cell is <<i, j>> with row i in 0..height-1 and column j in            *)
(* 0..width-1.  The hidden board maps a cell to -1 (mine) or to the stored  *)
(* adjacent-mine number.  visible and marked are the sets of cells whose    *)
(* numpy flag is True.  A constraint is [variables |-> set of cells,        *)
(* value |-> integer].                                                     *)
(***************************************************************************)
EXTENDS Integers, Sequences, FiniteSets, TLC

VARIABLES width, height, num_mines, board, visible, marked, first_move,
          game_over, won, constraints, move, move_count, worlds, coupled, pc,
          last, calls,
          running, ai_thread, gui_board, gui_solver, start_pc, threads, over,
          touched

\* the state of the window (MinesweeperGUI of src/game.py): gui_board and
\* gui_solver number the objects held in self.board and self.solver, 0 for
\* None; threads[t] is the position of the run_ai_solver thread started for
\* board t; over[g] says that board g has game_over or won set
guivars == <<running, ai_thread, gui_board, gui_solver, start_pc, threads, over,
             touched>>

vars == <<width, height, num_mines, board, visible, marked, first_move,
          game_over, won, constraints, move, move_count, worlds, coupled, pc,
          last, calls,
          running, ai_thread, gui_board, gui_solver, start_pc, threads, over,
          touched>>

(* ------------------------------ bounds --------------------------------- *)

MaxW == 3

MaxH == 3

MaxMines == 3

MaxCalls == 3

ApiMaxCells == 6

EnumVars == 3

MaxEnumLen == 2

MaxProbes == 1

MaxCoupleLen == 3

MaxMoves == 40

MaxGames == 3

None == [action |-> "none"]

NoCall == [op |-> "none"]

NoTally == [total_solutions |-> -1]

NoTouch == [op |-> "none"]

\* MinesweeperGUI.__init__: no board, no solver, no thread, not running
GuiIdle ==
    /\ running = FALSE
    /\ ai_thread = 0
    /\ gui_board = 0
    /\ gui_solver = 0
    /\ start_pc = "idle"
    /\ threads = [t \in 1 .. MaxGames |-> "unborn"]
    /\ over = [g \in 1 .. MaxGames |-> FALSE]
    /\ touched = NoTouch

(* ------------------------------ helpers -------------------------------- *)

CellsOf(w, h) == (0 .. h - 1) \X (0 .. w - 1)

Cells == CellsOf(width, height)

\* row-major order of range(height) x range(width)
RowMajorLess(a, b) == a[1] < b[1] \/ (a[1] = b[1] /\ a[2] < b[2])

RECURSIVE RowMajorSeq(_)
RowMajorSeq(S) ==
    IF S = {} THEN << >>
    ELSE LET m == CHOOSE x \in S : \A y \in S : y = x \/ RowMajorLess(x, y)
         IN  <<m>> \o RowMajorSeq(S \ {m})

Range(s) == {s[k] : k \in 1 .. Len(s)}

Deltas == << <<-1, -1>>, <<-1, 0>>, <<-1, 1>>, <<0, -1>>,
             <<0, 1>>, <<1, -1>>, <<1, 0>>, <<1, 1>> >>

InBounds(c) == 0 <= c[1] /\ c[1] < height /\ 0 <= c[2] /\ c[2] < width

get_neighbors(c) ==
    SelectSeq([k \in 1 .. 8 |-> <<c[1] + Deltas[k][1], c[2] + Deltas[k][2]>>],
              InBounds)

count_adjacent_mines(bd, c) ==
    LET nb == get_neighbors(c)
    IN  Cardinality({k \in 1 .. Len(nb) : bd[nb[k]] = -1})

\* mine_positions is the result of random.sample(positions, num_mines)
place_mines_randomly(mine_positions) ==
    LET b0 == [c \in Cells |-> IF c \in mine_positions THEN -1 ELSE 0]
    IN  [c \in Cells |-> IF b0[c] # -1 THEN count_adjacent_mines(b0, c) ELSE b0[c]]

\* MinesweeperBoard.__init__ raises: np.zeros rejects a negative dimension,
\* random.sample rejects a negative or larger-than-population sample size.
init_raises(w, h, n) == w < 0 \/ h < 0 \/ n < 0 \/ n > w * h

(* ------------------------------ probe ---------------------------------- *)

MinesOf(bd) == {c \in DOMAIN bd : bd[c] = -1}

\* lines 61-73: swap the mine at c with the first non-mine cell in row-major
\* order and recompute the numbers around both cells
relocate_identity(bd, c) == bd

relocate_keep(bd, c) ==
    LET free == {d \in DOMAIN bd : bd[d] # -1}
    IN  IF free = {} THEN bd
        ELSE LET n == RowMajorSeq(free)[1] IN [bd EXCEPT ![n] = -1]

\* line 68 without get_neighbors(ni, nj)
relocate_partial(bd, c) ==
    LET free == {d \in DOMAIN bd : bd[d] # -1}
    IN  IF free = {} THEN bd
        ELSE LET n  == RowMajorSeq(free)[1]
                 b1 == [bd EXCEPT ![c] = 0, ![n] = -1]
                 affected == Range(get_neighbors(c)) \cup {c, n}
             IN  [d \in DOMAIN bd |->
                    IF d \in affected /\ b1[d] # -1
                    THEN count_adjacent_mines(b1, d) ELSE b1[d]]

relocate(bd, c) ==
    LET free == {d \in DOMAIN bd : bd[d] # -1}
    IN  IF free = {} THEN bd
        ELSE LET n  == RowMajorSeq(free)[1]
                 b1 == [bd EXCEPT ![c] = 0, ![n] = -1]
                 affected == Range(get_neighbors(c)) \cup Range(get_neighbors(n))
                             \cup {c, n}
             IN  [d \in DOMAIN bd |->
                    IF d \in affected /\ b1[d] # -1
                    THEN count_adjacent_mines(b1, d) ELSE b1[d]]

\* lines 85-92: breadth-first reveal; queue is the deque, vis the visible set
RECURSIVE flood(_, _, _, _)
flood(bd, mk, queue, vis) ==
    IF queue = << >> THEN vis
    ELSE LET nb   == get_neighbors(queue[1])
             new  == SelectSeq(nb, LAMBDA d : d \notin vis /\ d \notin mk)
             zero == SelectSeq(new, LAMBDA d : bd[d] = 0)
         IN  flood(bd, mk, Tail(queue) \o zero, vis \cup Range(new))

\* MinesweeperBoard.probe on the board record b; ret is the return value
probe(b, c) ==
    LET bd == IF b.first_move /\ b.board[c] = -1 THEN relocate(b.board, c)
              ELSE b.board
        b1 == [b EXCEPT !.first_move = FALSE, !.board = bd]
    IN  IF bd[c] = -1
        THEN [b |-> [b1 EXCEPT !.game_over = TRUE], ret |-> FALSE]
        ELSE LET v1 == b.visible \cup {c}
                 v2 == IF bd[c] = 0 THEN flood(bd, b.marked, <<c>>, v1) ELSE v1
                 w  == IF Cardinality(v2) = width * height - num_mines
                       THEN TRUE ELSE b.won
             IN  [b |-> [b1 EXCEPT !.visible = v2, !.won = w], ret |-> TRUE]

\* line 101 left out
mark_mine_dropped(b, c) == b

mark_mine(b, c) == [b EXCEPT !.marked = @ \cup {c}]

TheBoard == [board |-> board, visible |-> visible, marked |-> marked,
             first_move |-> first_move, game_over |-> game_over, won |-> won]

SetBoard(b) ==
    /\ board' = b.board
    /\ visible' = b.visible
    /\ marked' = b.marked
    /\ first_move' = b.first_move
    /\ game_over' = b.game_over
    /\ won' = b.won

(* --------------------------- construction ------------------------------ *)

\* MinesweeperBoard(width, height, num_mines) followed by CSPStrategy(board);
\* pc = "error" when the constructor raised and no board exists
Construct(w, h, n) ==
    /\ width = w
    /\ height = h
    /\ num_mines = n
    /\ IF init_raises(w, h, n)
       THEN /\ board = << >>
            /\ pc = "error"
       ELSE /\ \E mine_positions \in {S \in SUBSET CellsOf(w, h) : Cardinality(S) = n} :
                  board = place_mines_randomly(mine_positions)
            /\ pc = "loop"
    /\ visible = {}
    /\ marked = {}
    /\ first_move = TRUE
    /\ game_over = FALSE
    /\ won = FALSE
    /\ constraints = << >>
    /\ move = None
    /\ move_count = 0
    /\ worlds = NoTally
    /\ coupled = << >>
    /\ last = NoCall
    /\ calls = 0
    /\ GuiIdle

(* ------------------------------ solver --------------------------------- *)

Constraint(variables, value) == [variables |-> variables, value |-> value]

\* CSPStrategy.simplify_constraints: one pass over the list; the board
\* flags are written while the pass runs.  Result: the new list and flags.
RECURSIVE simplify_pass(_, _, _, _, _)
simplify_pass(k, cs, vis, mk, new_constraints) ==
    IF k > Len(cs)
    THEN [constraints |-> new_constraints, visible |-> vis, marked |-> mk]
    ELSE LET c         == cs[k]
             new_vars  == {v \in c.variables : v \notin vis /\ v \notin mk}
             new_value == c.value
                          - Cardinality({v \in c.variables : v \notin vis /\ v \in mk})
         IN  IF new_vars = {}
             THEN simplify_pass(k + 1, cs, vis, mk, new_constraints)
             ELSE IF new_value = 0
             THEN simplify_pass(k + 1, cs, vis \cup new_vars, mk, new_constraints)
             ELSE IF new_value = Cardinality(new_vars)
             THEN simplify_pass(k + 1, cs, vis, mk \cup new_vars, new_constraints)
             ELSE simplify_pass(k + 1, cs, vis, mk,
                                Append(new_constraints, Constraint(new_vars, new_value)))

\* lines 189-194 with the two branches confused: a visible variable is
\* counted as a mine
simplify_constraints_visible_counted(cs, vis, mk) ==
    simplify_pass(1,
        [k \in 1 .. Len(cs) |->
            Constraint(cs[k].variables,
                       cs[k].value - Cardinality(cs[k].variables \cap vis))],
        vis, mk, << >>)

simplify_constraints(cs, vis, mk) == simplify_pass(1, cs, vis, mk, << >>)

RemoveAt(s, j) == SubSeq(s, 1, j - 1) \o SubSeq(s, j + 1, Len(s))

RECURSIVE subset_inner(_, _, _, _, _)

\* line 231 with its operands exchanged
subset_inner_exchanged(i, j, c1, cs, changed) ==
    IF j > Len(cs) THEN [constraints |-> cs, changed |-> changed]
    ELSE IF i # j /\ c1.variables \subseteq cs[j].variables
    THEN LET new_vars  == cs[j].variables \ c1.variables
             new_value == c1.value - cs[j].value
         IN  IF new_vars # {}
             THEN subset_inner(i, j + 1, c1,
                               [cs EXCEPT ![j] = Constraint(new_vars, new_value)], TRUE)
             ELSE [constraints |-> RemoveAt(cs, j), changed |-> TRUE]
    ELSE subset_inner(i, j + 1, c1, cs, changed)

\* inner for-loop of simplify_constraints_by_subset for a fixed c1 = cs[i]
subset_inner(i, j, c1, cs, changed) ==
    IF j > Len(cs) THEN [constraints |-> cs, changed |-> changed]
    ELSE IF i # j /\ c1.variables \subseteq cs[j].variables
    THEN LET new_vars  == cs[j].variables \ c1.variables
             new_value == cs[j].value - c1.value
         IN  IF new_vars # {}
             THEN subset_inner(i, j + 1, c1,
                               [cs EXCEPT ![j] = Constraint(new_vars, new_value)], TRUE)
             ELSE [constraints |-> RemoveAt(cs, j), changed |-> TRUE]
    ELSE subset_inner(i, j + 1, c1, cs, changed)

\* outer for-loop: stops at the first i whose inner loop changed the list
RECURSIVE subset_outer(_, _)
subset_outer(i, cs) ==
    IF i > Len(cs) THEN [constraints |-> cs, changed |-> FALSE]
    ELSE LET r == subset_inner(i, 1, cs[i], cs, FALSE)
         IN  IF r.changed THEN r ELSE subset_outer(i + 1, cs)

\* CSPStrategy.simplify_constraints_by_subset: while changed
RECURSIVE simplify_constraints_by_subset(_)
simplify_constraints_by_subset(cs) ==
    LET r == subset_outer(1, cs)
    IN  IF r.changed THEN simplify_constraints_by_subset(r.constraints)
        ELSE r.constraints

\* Steps 1 and 2 of next_move
simplify_steps(cs, vis, mk) ==
    LET s == simplify_constraints(cs, vis, mk)
    IN  [s EXCEPT !.constraints = simplify_constraints_by_subset(s.constraints)]

Mv(action, cell, rule) == [action |-> action, cell |-> cell, rule |-> rule]

\* moves find_certain_move can return from one constraint (the order of a
\* Python set is not fixed by the code: any eligible variable may come first)
certain_of(c, vis, mk) ==
    IF c.value = Cardinality(c.variables) /\ c.variables \ mk # {}
    THEN {Mv("mark", v, "trivial") : v \in c.variables \ mk}
    ELSE IF c.value = 0
    THEN {Mv("probe", v, "trivial") : v \in c.variables \ (vis \cup mk)}
    ELSE {}

\* CSPStrategy.find_certain_move: the first constraint that yields a move
RECURSIVE find_certain_from(_, _, _, _)
find_certain_from(k, cs, vis, mk) ==
    IF k > Len(cs) THEN {}
    ELSE LET m == certain_of(cs[k], vis, mk)
         IN  IF m # {} THEN m ELSE find_certain_from(k + 1, cs, vis, mk)

find_certain_move(cs, vis, mk) == find_certain_from(1, cs, vis, mk)

(* ----------------------- component decomposition ----------------------- *)

\* line 269 with the edge added for j > i only
constraint_graph_forward(cs) ==
    [i \in 1 .. Len(cs) |->
        {j \in 1 .. Len(cs) : i < j /\ cs[i].variables \cap cs[j].variables # {}}]

constraint_graph(cs) ==
    [i \in 1 .. Len(cs) |->
        {j \in 1 .. Len(cs) : i # j /\ cs[i].variables \cap cs[j].variables # {}}]

RECURSIVE AscSeq(_)
AscSeq(S) ==
    IF S = {} THEN << >>
    ELSE LET m == CHOOSE x \in S : \A y \in S : x <= y
         IN  <<m>> \o AscSeq(S \ {m})

\* the while-queue loop: returns the component (indices) and the visited set
RECURSIVE bfs(_, _, _, _)
bfs(graph, queue, visited, component) ==
    IF queue = << >> THEN [component |-> component, visited |-> visited]
    ELSE LET node == queue[1]
             new  == AscSeq(graph[node] \ visited)
         IN  bfs(graph, Tail(queue) \o new, visited \cup Range(new),
                 Append(component, node))

RECURSIVE coupled_from(_, _, _, _)
coupled_from(i, cs, graph, visited) ==
    IF i > Len(cs) THEN << >>
    ELSE IF i \in visited THEN coupled_from(i + 1, cs, graph, visited)
    ELSE LET r == bfs(graph, <<i>>, visited \cup {i}, << >>)
         IN  << [k \in 1 .. Len(r.component) |-> cs[r.component[k]]] >>
             \o coupled_from(i + 1, cs, graph, r.visited)

\* CSPStrategy.find_coupled_constraints: list of lists of constraints
find_coupled_constraints(cs) == coupled_from(1, cs, constraint_graph(cs), {})

AllVars(constraints_subset) ==
    UNION {constraints_subset[k].variables : k \in 1 .. Len(constraints_subset)}

\* closedness test of check_craps_shoot
is_closed(constraints_subset, vis, mk) ==
    LET all_vars == AllVars(constraints_subset)
    IN  \A v \in all_vars : \A n \in Range(get_neighbors(v)) :
            n \in vis \/ n \in mk \/ n \in all_vars

check_craps_shoot(constraints_subset, vis, mk) ==
    IF is_closed(constraints_subset, vis, mk)
    THEN {Mv("probe", v, "craps") : v \in AllVars(constraints_subset)}
    ELSE {}

(* ----------------------------- enumeration ----------------------------- *)

Assigned(assigned_vars, var) ==
    IF var \in DOMAIN assigned_vars THEN assigned_vars[var] ELSE 0

\* the leaf test of backtrack: every constraint's mine count equals its value
leaf_first_only(constraints_subset, assigned_vars) ==
    Len(constraints_subset) = 0 \/
    Cardinality({v \in constraints_subset[1].variables : Assigned(assigned_vars, v) = 1})
        = constraints_subset[1].value

leaf_ok(constraints_subset, assigned_vars) ==
    \A k \in 1 .. Len(constraints_subset) :
        Cardinality({v \in constraints_subset[k].variables : Assigned(assigned_vars, v) = 1})
            = constraints_subset[k].value

\* backtrack(var_idx, assigned_vars, ...), var_idx 1-based: what the call
\* adds to total_solutions and to var_is_mine_count.  A leaf that passes the
\* test adds one world and one to every variable assigned 1; an inner call
\* adds what its two recursive calls (0 first, then 1) add.
RECURSIVE backtrack(_, _, _, _)
backtrack(var_idx, assigned_vars, all_vars, constraints_subset) ==
    IF var_idx = Len(all_vars) + 1
    THEN IF leaf_ok(constraints_subset, assigned_vars)
         THEN [total_solutions |-> 1,
               var_is_mine_count |->
                   [v \in Range(all_vars) |->
                       IF Assigned(assigned_vars, v) = 1 THEN 1 ELSE 0]]
         ELSE [total_solutions |-> 0,
               var_is_mine_count |-> [v \in Range(all_vars) |-> 0]]
    ELSE LET a0 == backtrack(var_idx + 1, (all_vars[var_idx] :> 0) @@ assigned_vars,
                             all_vars, constraints_subset)
             a1 == backtrack(var_idx + 1, (all_vars[var_idx] :> 1) @@ assigned_vars,
                             all_vars, constraints_subset)
         IN  [total_solutions |-> a0.total_solutions + a1.total_solutions,
              var_is_mine_count |->
                  [v \in Range(all_vars) |->
                      a0.var_is_mine_count[v] + a1.var_is_mine_count[v]]]

\* the tally solve_constraints and make_best_guess compute for a component:
\* the counters start at 0 and backtrack(0, {}) runs over list(all_vars)
tally(constraints_subset) ==
    backtrack(1, << >>, RowMajorSeq(AllVars(constraints_subset)), constraints_subset)

solve_constraints_swapped(constraints_subset) ==
    LET t == tally(constraints_subset)
    IN  IF t.total_solutions = 0 THEN {}
        ELSE {Mv("mark", v, "solve") :
                 v \in {x \in DOMAIN t.var_is_mine_count : t.var_is_mine_count[x] = 0}}
             \cup
             {Mv("probe", v, "solve") :
                 v \in {x \in DOMAIN t.var_is_mine_count :
                          t.var_is_mine_count[x] # 0
                          /\ t.var_is_mine_count[x] = t.total_solutions}}

\* CSPStrategy.solve_constraints: the first variable, in the order of the
\* list made from a set, that is a mine in no world or in every world
solve_constraints(constraints_subset) ==
    LET t == tally(constraints_subset)
    IN  IF t.total_solutions = 0 THEN {}
        ELSE {Mv("probe", v, "solve") :
                 v \in {x \in DOMAIN t.var_is_mine_count : t.var_is_mine_count[x] = 0}}
             \cup
             {Mv("mark", v, "solve") :
                 v \in {x \in DOMAIN t.var_is_mine_count :
                          t.var_is_mine_count[x] # 0
                          /\ t.var_is_mine_count[x] = t.total_solutions}}

(* ------------------------- guesses and heuristics ---------------------- *)

RECURSIVE SumOver(_, _)
SumOver(S, f) ==
    IF S = {} THEN 0
    ELSE LET x == CHOOSE y \in S : TRUE IN f[x] + SumOver(S \ {x}, f)

RECURSIVE ProdOver(_, _)
ProdOver(S, f) ==
    IF S = {} THEN 1
    ELSE LET x == CHOOSE y \in S : TRUE IN f[x] * ProdOver(S \ {x}, f)

\* var_probs of make_best_guess, kept as exact fractions: for each variable
\* of a component with at least one world, its component's position, its
\* mine count cnt and the world count tot; P(clear) is 1 - cnt/tot
var_probs_of(comps) ==
    [v \in UNION {AllVars(comps[k]) :
                    k \in {n \in 1 .. Len(comps) : tally(comps[n]).total_solutions > 0}} |->
        LET k == CHOOSE n \in 1 .. Len(comps) : v \in AllVars(comps[n])
        IN  [comp |-> k,
             cnt  |-> tally(comps[k]).var_is_mine_count[v],
             tot  |-> tally(comps[k]).total_solutions]]

\* common denominator of the fractions cnt/tot
prob_den(vp) ==
    ProdOver({vp[v].comp : v \in DOMAIN vp},
             [k \in {vp[v].comp : v \in DOMAIN vp} |->
                 CHOOSE t \in {vp[v].tot : v \in {x \in DOMAIN vp : vp[x].comp = k}} : TRUE])

\* line 441
unconstrained_count(vp, vis, mk) ==
    Cardinality(Cells \ (vis \cup mk))
    - Cardinality({v \in DOMAIN vp : v \notin vis /\ v \notin mk})

\* lines 445-446: expected_mines_unconstrained, times prob_den(vp)
expected_unconstrained_num(vp, mk) ==
    (num_mines - Cardinality(mk)) * prob_den(vp)
    - SumOver(DOMAIN vp, [v \in DOMAIN vp |-> vp[v].cnt * (prob_den(vp) \div vp[v].tot)])

\* lines 452-459: the variables with the largest P(clear) > 0 among the
\* unresolved ones
best_vars(vp, vis, mk) ==
    {v \in DOMAIN vp :
        /\ v \notin vis /\ v \notin mk /\ vp[v].cnt < vp[v].tot
        /\ \A u \in DOMAIN vp :
              (u \notin vis /\ u \notin mk /\ vp[u].cnt < vp[u].tot)
              => vp[v].cnt * vp[u].tot <= vp[u].cnt * vp[v].tot}

\* best_var is found first in the order of var_probs: component by
\* component, and inside a component in the order of a Python set
first_best_vars(vp, vis, mk) ==
    {v \in best_vars(vp, vis, mk) :
        \A u \in best_vars(vp, vis, mk) : vp[v].comp <= vp[u].comp}

\* line 462, best_prob > p_unconstrained_clear, as a comparison of exact
\* fractions: -1 below, 0 equal, 1 above
compare_best(vp, vis, mk, v) ==
    LET lhs == vp[v].cnt * prob_den(vp) * unconstrained_count(vp, vis, mk)
        rhs == expected_unconstrained_num(vp, mk) * vp[v].tot
    IN  IF lhs < rhs THEN 1 ELSE IF lhs = rhs THEN 0 ELSE -1

\* the result of make_best_guess given var_probs; None included when the
\* function can return None.  The float comparison of line 462 can fall
\* either way when the two sides are the same fraction.
best_guess_from(vp, vis, mk) ==
    IF unconstrained_count(vp, vis, mk) > 0 /\ best_vars(vp, vis, mk) # {}
    THEN {Mv("probe", v, "guess") :
             v \in {x \in first_best_vars(vp, vis, mk) : compare_best(vp, vis, mk, x) >= 0}}
         \cup (IF \E x \in first_best_vars(vp, vis, mk) : compare_best(vp, vis, mk, x) <= 0
               THEN {None} ELSE {})
    ELSE {None}

\* CSPStrategy.make_best_guess: the set of possible results
make_best_guess(cs, vis, mk) ==
    best_guess_from(var_probs_of(find_coupled_constraints(cs)), vis, mk)

Raise == [action |-> "raise"]

\* CSPStrategy.choose_unconstrained_square: the set of possible results.
\* On a board with no cell the first corner lookup raises IndexError.
choose_unconstrained_square(cs, vis, mk) ==
    LET unknown  == Cells \ (vis \cup mk)
        corners  == << <<0, 0>>, <<0, width - 1>>, <<height - 1, 0>>,
                       <<height - 1, width - 1>> >>
        ucorners == SelectSeq(corners, LAMBDA c : c \in unknown)
        edges    == {c \in Cells : (c[1] = 0 \/ c[1] = height - 1
                                    \/ c[2] = 0 \/ c[2] = width - 1)
                                   /\ c \notin Range(corners)}
        interior == {c \in unknown : c[1] >= 1 /\ c[1] <= height - 2
                                     /\ c[2] >= 1 /\ c[2] <= width - 2}
        overlap(c) == SumOver(1 .. Len(cs), [k \in 1 .. Len(cs) |->
                          Cardinality(Range(get_neighbors(c)) \cap cs[k].variables)])
        best_square == CHOOSE c \in interior :
                          \A d \in interior :
                              \/ overlap(d) < overlap(c)
                              \/ (overlap(d) = overlap(c) /\ (d = c \/ RowMajorLess(c, d)))
    IN  IF width < 1 \/ height < 1 THEN {Raise}
        ELSE IF ucorners # << >> THEN {Mv("probe", ucorners[1], "corner")}
        ELSE IF edges \cap unknown # {}
        THEN {Mv("probe", c, "edge") : c \in edges \cap unknown}
        ELSE IF interior # {} THEN {Mv("probe", best_square, "interior")}
        ELSE IF unknown # {} THEN {Mv("probe", c, "random") : c \in unknown}
        ELSE {None}

\* the loop over the coupled subsets in next_move: craps-shoot test first,
\* then solve_constraints, component by component
RECURSIVE scan_components(_, _, _, _)
scan_components(k, comps, vis, mk) ==
    IF k > Len(comps) THEN {}
    ELSE LET craps_shoot == check_craps_shoot(comps[k], vis, mk)
         IN  IF craps_shoot # {} THEN craps_shoot
             ELSE LET certain_move == solve_constraints(comps[k])
                  IN  IF certain_move # {} THEN certain_move
                      ELSE scan_components(k + 1, comps, vis, mk)

\* the selection part of next_move, after the two simplification steps
select_move(cs, vis, mk) ==
    LET certain_move == find_certain_move(cs, vis, mk)
    IN  IF certain_move # {} THEN certain_move
        ELSE LET m == scan_components(1, find_coupled_constraints(cs), vis, mk)
             IN  IF m # {} THEN m
                 ELSE LET best_guess == make_best_guess(cs, vis, mk)
                      IN  (best_guess \ {None})
                          \cup (IF None \in best_guess
                                THEN choose_unconstrained_square(cs, vis, mk)
                                ELSE {})

\* CSPStrategy.update_constraints with add_constraint_from_move: one new
\* constraint per visible cell with a positive number and a non-visible
\* neighbour, in row-major order
RECURSIVE add_constraints(_, _, _, _)
add_constraints(cells, cs, bd, vis) ==
    IF cells = << >> THEN cs
    ELSE LET c == cells[1]
             unknown_neighbors == {n \in Range(get_neighbors(c)) : n \notin vis}
         IN  add_constraints(Tail(cells),
                 IF unknown_neighbors # {} /\ bd[c] > 0
                 THEN Append(cs, Constraint(unknown_neighbors, bd[c]))
                 ELSE cs,
                 bd, vis)

update_constraints(cs, bd, vis) == add_constraints(RowMajorSeq(vis), cs, bd, vis)

(* --------------------------- the driving loop -------------------------- *)

\* play_minesweeper_ai(width, height, num_mines): every argument triple
Init ==
    \E w \in -1 .. MaxW, h \in -1 .. MaxH, n \in 0 .. MaxMines : Construct(w, h, n)

\* move = solver.next_move()
NextMove ==
    /\ pc = "loop"
    /\ ~game_over /\ ~won
    /\ move_count < MaxMoves
    /\ LET s == simplify_steps(constraints, visible, marked)
       IN  /\ constraints' = s.constraints
           /\ visible' = s.visible
           /\ marked' = s.marked
           /\ \E m \in select_move(s.constraints, s.visible, s.marked) :
                /\ move' = m
                /\ pc' = IF m = Raise THEN "crashed"
                         ELSE IF m = None THEN "done" ELSE "apply"
    /\ UNCHANGED <<width, height, num_mines, move_count, board, first_move, game_over, won,
                   worlds, coupled, last, calls>>
    /\ UNCHANGED guivars

\* action == "probe": board.probe(i, j) then solver.update_constraints()
ApplyProbe ==
    /\ pc = "apply"
    /\ move.action = "probe"
    /\ LET r == probe(TheBoard, move.cell)
       IN  /\ SetBoard(r.b)
           /\ constraints' = update_constraints(constraints, r.b.board, r.b.visible)
           /\ last' = [op |-> "probe", cell |-> move.cell, ret |-> r.ret,
                       first |-> first_move, was_mine |-> board[move.cell] = -1,
                       seen |-> move.cell \in visible]
    /\ move_count' = move_count + 1
    /\ pc' = "loop"
    /\ UNCHANGED <<width, height, num_mines, move, worlds, coupled, calls>>
    /\ UNCHANGED guivars

\* action == "mark": board.mark_mine(i, j)
ApplyMark ==
    /\ pc = "apply"
    /\ move.action = "mark"
    /\ SetBoard(mark_mine(TheBoard, move.cell))
    /\ last' = [op |-> "mark", cell |-> move.cell]
    /\ move_count' = move_count + 1
    /\ pc' = "loop"
    /\ UNCHANGED <<width, height, num_mines, constraints, move, worlds, coupled, calls>>
    /\ UNCHANGED guivars

\* while not board.game_over and not board.won: the loop ends
LoopExit ==
    /\ pc = "loop"
    /\ game_over \/ won
    /\ pc' = "done"
    /\ UNCHANGED <<width, height, num_mines, move_count, board, visible, marked, first_move,
                   game_over, won, constraints, move, worlds, coupled, last, calls>>
    /\ UNCHANGED guivars

Next == NextMove \/ ApplyProbe \/ ApplyMark \/ LoopExit

Spec == Init /\ [][Next]_vars

(* ----------------------- direct calls on a board ------------------------ *)

ApiInit ==
    \E w \in -1 .. MaxW, h \in -1 .. MaxH, n \in 0 .. MaxMines :
        /\ w * h <= ApiMaxCells
        /\ Construct(w, h, n)

CallProbe ==
    /\ pc = "loop"
    /\ calls < MaxCalls
    /\ \E c \in Cells :
         LET r == probe(TheBoard, c)
         IN  /\ SetBoard(r.b)
             /\ last' = [op |-> "probe", cell |-> c, ret |-> r.ret,
                         first |-> first_move, was_mine |-> board[c] = -1,
                         seen |-> c \in visible]
    /\ calls' = calls + 1
    /\ UNCHANGED <<width, height, num_mines, move_count, constraints, move, worlds,
                   coupled, pc>>
    /\ UNCHANGED guivars

CallMark ==
    /\ pc = "loop"
    /\ calls < MaxCalls
    /\ \E c \in Cells :
         /\ SetBoard(mark_mine(TheBoard, c))
         /\ last' = [op |-> "mark", cell |-> c]
    /\ calls' = calls + 1
    /\ UNCHANGED <<width, height, num_mines, move_count, constraints, move, worlds,
                   coupled, pc>>
    /\ UNCHANGED guivars

\* solver.next_move() called directly
CallNextMove ==
    /\ pc = "loop"
    /\ calls < MaxCalls
    /\ LET s == simplify_steps(constraints, visible, marked)
       IN  /\ constraints' = s.constraints
           /\ visible' = s.visible
           /\ marked' = s.marked
           /\ \E m \in select_move(s.constraints, s.visible, s.marked) :
                /\ move' = m
                /\ pc' = IF m = Raise THEN "crashed" ELSE "loop"
    /\ last' = [op |-> "next_move"]
    /\ calls' = calls + 1
    /\ UNCHANGED <<width, height, num_mines, move_count, board, first_move, game_over, won,
                   worlds, coupled>>
    /\ UNCHANGED guivars

\* solver.update_constraints() called directly
CallUpdate ==
    /\ pc = "loop"
    /\ calls < MaxCalls
    /\ visible # {}
    /\ constraints' = update_constraints(constraints, board, visible)
    /\ last' = [op |-> "update_constraints"]
    /\ calls' = calls + 1
    /\ UNCHANGED <<width, height, num_mines, move_count, board, visible, marked, first_move,
                   game_over, won, move, worlds, coupled, pc>>
    /\ UNCHANGED guivars

ApiNext == CallProbe \/ CallMark \/ CallNextMove \/ CallUpdate

ApiSpec == ApiInit /\ [][ApiNext]_vars

(* ------------------------ probes on a fresh board ---------------------- *)

\* board.probe(i, j) on any cell of a board of any size and layout
BoardProbe ==
    /\ pc = "loop"
    /\ calls < MaxProbes
    /\ \E c \in Cells :
         LET r == probe(TheBoard, c)
         IN  /\ SetBoard(r.b)
             /\ last' = [op |-> "probe", cell |-> c, ret |-> r.ret,
                         first |-> first_move, was_mine |-> board[c] = -1,
                         seen |-> c \in visible]
    /\ calls' = calls + 1
    /\ UNCHANGED <<width, height, num_mines, move_count, constraints, move, worlds,
                   coupled, pc>>
    /\ UNCHANGED guivars

BoardNext == BoardProbe

BoardSpec == Init /\ [][BoardNext]_vars

(* -------------------- solve_constraints on any component --------------- *)

EnumCells == {<<0, j>> : j \in 0 .. EnumVars - 1}

\* every constraint over the cells, its value from 0 to one more than its
\* number of variables (a value no assignment can reach)
EnumConstraints ==
    UNION {{Constraint(S, k) : k \in 0 .. Cardinality(S) + 1} :
              S \in (SUBSET EnumCells) \ {{}}}

RECURSIVE SeqsUpTo(_, _)
SeqsUpTo(S, n) ==
    IF n = 0 THEN {<< >>}
    ELSE LET shorter == SeqsUpTo(S, n - 1)
         IN  shorter \cup {Append(q, x) : q \in {r \in shorter : Len(r) = n - 1}, x \in S}

\* a solver holding an arbitrary list of constraints over the cells of a
\* one-row board
EnumInit ==
    /\ width = EnumVars
    /\ height = 1
    /\ num_mines = 0
    /\ board = [c \in EnumCells |-> 0]
    /\ visible = {}
    /\ marked = {}
    /\ first_move = TRUE
    /\ game_over = FALSE
    /\ won = FALSE
    /\ constraints \in SeqsUpTo(EnumConstraints, MaxEnumLen) \ {<< >>}
    /\ move = None
    /\ move_count = 0
    /\ worlds = NoTally
    /\ coupled = << >>
    /\ pc = "enum"
    /\ last = NoCall
    /\ calls = 0
    /\ GuiIdle

\* solver.solve_constraints(constraints_subset) on the whole list
Solve ==
    /\ pc = "enum"
    /\ worlds' = tally(constraints)
    /\ \E m \in (IF solve_constraints(constraints) = {} THEN {None}
                 ELSE solve_constraints(constraints)) : move' = m
    /\ pc' = "solved"
    /\ last' = [op |-> "solve_constraints"]
    /\ UNCHANGED <<width, height, num_mines, move_count, board, visible, marked, first_move,
                   game_over, won, constraints, coupled, calls>>
    /\ UNCHANGED guivars

EnumNext == Solve

EnumSpec == EnumInit /\ [][EnumNext]_vars

(* ------------- find_coupled_constraints on any constraint list --------- *)

\* the constraints over the cells, one per non-empty variable set
CoupleConstraints == {Constraint(S, 1) : S \in (SUBSET EnumCells) \ {{}}}

CoupleInit ==
    /\ width = EnumVars
    /\ height = 1
    /\ num_mines = 0
    /\ board = [c \in EnumCells |-> 0]
    /\ visible = {}
    /\ marked = {}
    /\ first_move = TRUE
    /\ game_over = FALSE
    /\ won = FALSE
    /\ constraints \in SeqsUpTo(CoupleConstraints, MaxCoupleLen)
    /\ move = None
    /\ move_count = 0
    /\ worlds = NoTally
    /\ coupled = << >>
    /\ pc = "couple"
    /\ last = NoCall
    /\ calls = 0
    /\ GuiIdle

\* solver.find_coupled_constraints()
Couple ==
    /\ pc = "couple"
    /\ coupled' = find_coupled_constraints(constraints)
    /\ pc' = "coupled"
    /\ last' = [op |-> "find_coupled_constraints"]
    /\ UNCHANGED <<width, height, num_mines, move_count, board, visible, marked, first_move,
                   game_over, won, constraints, move, worlds, calls>>
    /\ UNCHANGED guivars

CoupleNext == Couple

CoupleSpec == CoupleInit /\ [][CoupleNext]_vars

(* ------------------- the window and its solver threads ----------------- *)

boardvars == <<width, height, num_mines, board, visible, marked, first_move,
               game_over, won, constraints, move, move_count, worlds, coupled, pc,
               last, calls>>

\* ai_thread.is_alive()
is_alive(t) == t # 0 /\ threads[t] \notin {"unborn", "dead"}

\* start_game, lines 149-152: stop the running game and wait for its thread
StartGame ==
    /\ start_pc = "idle"
    /\ gui_board < MaxGames
    /\ IF running
       THEN /\ running' = FALSE
            /\ start_pc' = IF is_alive(ai_thread) THEN "join" ELSE "setup"
       ELSE /\ start_pc' = "setup"
            /\ UNCHANGED running
    /\ UNCHANGED <<ai_thread, gui_board, gui_solver, threads, over, touched>>
    /\ UNCHANGED boardvars

\* ai_thread.join(timeout=1.0) returns: the thread has ended, or one second
\* has passed
JoinReturns ==
    /\ start_pc = "join"
    /\ start_pc' = "setup"
    /\ UNCHANGED <<running, ai_thread, gui_board, gui_solver, threads, over, touched>>
    /\ UNCHANGED boardvars

\* lines 179-190: a custom configuration is rejected and start_game returns
StartRejected ==
    /\ start_pc = "setup"
    /\ start_pc' = "idle"
    /\ UNCHANGED <<running, ai_thread, gui_board, gui_solver, threads, over, touched>>
    /\ UNCHANGED boardvars

\* line 196: self.board = MinesweeperBoard(width, height, num_mines)
InstallBoard ==
    /\ start_pc = "setup"
    /\ gui_board' = gui_board + 1
    /\ start_pc' = "solver"
    /\ UNCHANGED <<running, ai_thread, gui_solver, threads, over, touched>>
    /\ UNCHANGED boardvars

\* line 197: self.solver = CSPStrategy(self.board)
InstallSolver ==
    /\ start_pc = "solver"
    /\ gui_solver' = gui_board
    /\ start_pc' = "launch"
    /\ UNCHANGED <<running, ai_thread, gui_board, threads, over, touched>>
    /\ UNCHANGED boardvars

\* lines 206-208: running set, the new thread created and started
Launch ==
    /\ start_pc = "launch"
    /\ running' = TRUE
    /\ ai_thread' = gui_board
    /\ threads' = [threads EXCEPT ![gui_board] = "check"]
    /\ start_pc' = "idle"
    /\ UNCHANGED <<gui_board, gui_solver, over, touched>>
    /\ UNCHANGED boardvars

\* run_ai_solver, line 260: the loop condition, read from self
LoopCheck(t) ==
    /\ threads[t] = "check"
    /\ threads' = [threads EXCEPT ![t] =
                       IF running /\ gui_board # 0 /\ ~over[gui_board]
                       THEN "next_move" ELSE "dead"]
    /\ UNCHANGED <<running, ai_thread, gui_board, gui_solver, start_pc, over, touched>>
    /\ UNCHANGED boardvars

\* line 265: self.solver.next_move(); a None move ends the thread
SolverNextMove(t) ==
    /\ threads[t] = "next_move"
    /\ gui_solver # 0
    /\ touched' = [op |-> "next_move", thread |-> t, object |-> gui_solver]
    /\ \E p \in {"probe", "mark", "dead"} : threads' = [threads EXCEPT ![t] = p]
    /\ UNCHANGED <<running, ai_thread, gui_board, gui_solver, start_pc, over>>
    /\ UNCHANGED boardvars

\* line 278: self.board.probe(i, j), which can end the game
BoardProbed(t) ==
    /\ threads[t] = "probe"
    /\ touched' = [op |-> "probe", thread |-> t, object |-> gui_board]
    /\ \E b \in BOOLEAN : over' = [over EXCEPT ![gui_board] = @ \/ b]
    /\ threads' = [threads EXCEPT ![t] = "update_constraints"]
    /\ UNCHANGED <<running, ai_thread, gui_board, gui_solver, start_pc>>
    /\ UNCHANGED boardvars

\* line 282: self.solver.update_constraints()
SolverUpdated(t) ==
    /\ threads[t] = "update_constraints"
    /\ gui_solver # 0
    /\ touched' = [op |-> "update_constraints", thread |-> t, object |-> gui_solver]
    /\ threads' = [threads EXCEPT ![t] = "sleep"]
    /\ UNCHANGED <<running, ai_thread, gui_board, gui_solver, start_pc, over>>
    /\ UNCHANGED boardvars

\* line 284: self.board.mark_mine(i, j)
BoardMarked(t) ==
    /\ threads[t] = "mark"
    /\ touched' = [op |-> "mark_mine", thread |-> t, object |-> gui_board]
    /\ threads' = [threads EXCEPT ![t] = "sleep"]
    /\ UNCHANGED <<running, ai_thread, gui_board, gui_solver, start_pc, over>>
    /\ UNCHANGED boardvars

\* line 294: time.sleep(1 / self.speed.get()) returns, after 0.5 to 10 s
Wake(t) ==
    /\ threads[t] = "sleep"
    /\ threads' = [threads EXCEPT ![t] = "check"]
    /\ UNCHANGED <<running, ai_thread, gui_board, gui_solver, start_pc, over, touched>>
    /\ UNCHANGED boardvars

GuiInit == Construct(1, 1, 0)

GuiNext ==
    \/ StartGame
    \/ JoinReturns
    \/ StartRejected
    \/ InstallBoard
    \/ InstallSolver
    \/ Launch
    \/ \E t \in 1 .. MaxGames :
          \/ LoopCheck(t)
          \/ SolverNextMove(t)
          \/ BoardProbed(t)
          \/ SolverUpdated(t)
          \/ BoardMarked(t)
          \/ Wake(t)

GuiSpec == GuiInit /\ [][GuiNext]_vars

(* ------------------------------- claims -------------------------------- *)

ValidConfig == width >= 1 /\ height >= 1 /\ num_mines < width * height

\* C1: on a board with width >= 1, height >= 1 and num_mines < width*height,
\* the first probe of the game returns success, leaves game_over unset and
\* leaves no mine under the probed cell, whatever cell was probed.
C1_FirstProbeSafe ==
    (ValidConfig /\ last.op = "probe" /\ last.first)
        => (last.ret /\ ~game_over /\ board[last.cell] # -1 /\ last.cell \in visible)

\* the first probe hit a mine, which was relocated
C1_Witness ==
    /\ ValidConfig /\ last.op = "probe" /\ last.first /\ last.was_mine
    /\ last.ret /\ ~game_over

CertainRules == {"trivial", "solve"}

\* C2: in solver-driven play a move labelled certain (from find_certain_move
\* or solve_constraints) is correct: a probe targets a non-mine and never
\* loses, a mark targets a mine.
C2_CertainMovesSound ==
    (move.action \in {"probe", "mark"} /\ move.rule \in CertainRules)
        => /\ ~game_over
           /\ move.action = "probe" => board[move.cell] # -1
           /\ move.action = "mark" => board[move.cell] = -1

\* a certain probe found by enumeration has been applied
C2_Witness ==
    /\ pc = "loop" /\ move.action = "probe" /\ move.rule = "solve"
    /\ last.op = "probe" /\ last.cell = move.cell /\ last.ret

AllSafeVisible == (Cells \ MinesOf(board)) \subseteq visible

\* C3: in solver-driven play on a valid board, as soon as every non-mine
\* cell is visible the won flag is set and no further move is returned.
C3_WonWhenAllSafeVisible ==
    (ValidConfig /\ pc \in {"loop", "apply", "done"} /\ AllSafeVisible)
        => (won /\ pc # "apply")

\* C4: on a terminal board (game_over or won) a call of probe or mark_mine
\* changes neither the visible flags, the marked flags, the mine layout nor
\* the won and game_over flags.
C4_TerminalNoOp ==
    [][((game_over \/ won) /\ last'.op \in {"probe", "mark"} /\ calls' = calls + 1)
          => UNCHANGED <<visible, marked, board, won, game_over>>]_vars

\* C5: constructing a board with num_mines >= width*height, or with
\* width < 1 or height < 1, fails and yields no board.
C5_InvalidConfigRejected ==
    (num_mines >= width * height \/ width < 1 \/ height < 1) => pc = "error"

\* C6: right after next_move ran simplify_constraints and
\* simplify_constraints_by_subset, running the pair again changes neither
\* the constraint list nor the visible and marked flags.
C6_SimplifyFixedPoint ==
    pc = "apply"
        => simplify_steps(constraints, visible, marked)
           = [constraints |-> constraints, visible |-> visible, marked |-> marked]

\* the 0/1 assignments over the variables of a component that satisfy
\* every constraint exactly
Worlds(comp) ==
    {a \in [AllVars(comp) -> {0, 1}] :
        \A k \in 1 .. Len(comp) :
            Cardinality({v \in comp[k].variables : a[v] = 1}) = comp[k].value}

\* C7: the enumeration of solve_constraints tallies exactly the satisfying
\* assignments: total_solutions is their number and var_is_mine_count[v] the
\* number of them in which v is a mine.
C7_EnumerationExact ==
    pc = "solved"
        => LET W == Worlds(constraints)
           IN  /\ worlds.total_solutions = Cardinality(W)
               /\ DOMAIN worlds.var_is_mine_count = AllVars(constraints)
               /\ \A v \in AllVars(constraints) :
                     worlds.var_is_mine_count[v] = Cardinality({a \in W : a[v] = 1})

\* two coupled constraints with several worlds, among all 2^|V| assignments
\* some rejected by the second constraint only
C7_Witness ==
    /\ pc = "solved" /\ Len(constraints) = 2
    /\ Cardinality(AllVars(constraints)) = EnumVars
    /\ worlds.total_solutions >= 2
    /\ \E a \in [AllVars(constraints) -> {0, 1}] :
          /\ a \notin Worlds(constraints)
          /\ Cardinality({v \in constraints[1].variables : a[v] = 1})
             = constraints[1].value

\* C8: after any sequence of probe and mark_mine calls no cell is both
\* visible and marked.
C8_VisibleMarkedDisjoint == visible \cap marked = {}

\* C9: whenever a board exists it holds exactly num_mines mines: after
\* generation, after the first-probe relocation and after any later calls of
\* probe, mark_mine and next_move.
C9_MineCount == pc # "error" => Cardinality(MinesOf(board)) = num_mines

\* a first probe that relocated a mine, made after other calls, on a board
\* with several mines
C9_Witness ==
    /\ last.op = "probe" /\ last.first /\ last.was_mine /\ calls >= 2
    /\ num_mines >= 2 /\ num_mines < width * height
    /\ Cardinality(MinesOf(board)) = num_mines

\* a certain move exists after simplification: a trivial constraint with an
\* unresolved variable, or a component one of whose unresolved variables is
\* a mine in none or in all of the component's worlds
CertainMoveExists(cs, vis, mk) ==
    \/ \E k \in 1 .. Len(cs) :
          /\ cs[k].value = 0 \/ cs[k].value = Cardinality(cs[k].variables)
          /\ cs[k].variables \ (vis \cup mk) # {}
    \/ \E k \in 1 .. Len(find_coupled_constraints(cs)) :
          LET W == Worlds(find_coupled_constraints(cs)[k])
          IN  /\ W # {}
              /\ \E v \in AllVars(find_coupled_constraints(cs)[k]) \ (vis \cup mk) :
                    \/ \A a \in W : a[v] = 0
                    \/ \A a \in W : a[v] = 1

\* C10: whenever a certain move exists after simplification, next_move
\* returns a certain move and not a craps-shoot, probabilistic or heuristic
\* pick.
C10_CertainBeforeGuess ==
    (pc = "apply" /\ CertainMoveExists(constraints, visible, marked))
        => move.rule \in CertainRules

\* C11: in solver-driven play no visible cell holds a mine and every marked
\* cell holds a mine, the cells revealed and marked by simplify_constraints
\* included.
C11_VisibleSafeMarkedMine ==
    pc # "error"
        => /\ \A c \in visible : board[c] # -1
           /\ \A c \in marked : board[c] = -1

\* only the first probe has been applied, and next_move has since marked a
\* cell and revealed a cell that no flood fill reaches
C11_Witness ==
    /\ last.op = "probe" /\ last.first /\ marked # {}
    /\ \E c \in visible :
          /\ c # last.cell
          /\ \A n \in Range(get_neighbors(c)) : ~(n \in visible /\ board[n] = 0)

\* a component has a certain cell: it has a world and one of its unresolved
\* variables is a mine in none or in all of its worlds
HasCertainCell(comp, vis, mk) ==
    LET W == Worlds(comp)
    IN  /\ W # {}
        /\ \E v \in AllVars(comp) \ (vis \cup mk) :
              \/ \A a \in W : a[v] = 0
              \/ \A a \in W : a[v] = 1

\* C12: when next_move returns a craps-shoot probe, the component of the
\* probed cell is closed and has no certain cell.
C12_CrapsOnlyClosedUncertain ==
    (pc = "apply" /\ move.rule = "craps")
        => \E k \in 1 .. Len(find_coupled_constraints(constraints)) :
              LET comp == find_coupled_constraints(constraints)[k]
              IN  /\ move.cell \in AllVars(comp)
                  /\ is_closed(comp, visible, marked)
                  /\ ~HasCertainCell(comp, visible, marked)

\* C13: right after the simplification steps of next_move every live
\* constraint has at least one variable and none of its variables is visible
\* or marked.
C13_LiveConstraintsUnresolved ==
    pc = "apply"
        => \A k \in 1 .. Len(constraints) :
              /\ constraints[k].variables # {}
              /\ constraints[k].variables \cap (visible \cup marked) = {}

InRange(cs) ==
    \A k \in 1 .. Len(cs) :
        0 <= cs[k].value /\ cs[k].value <= Cardinality(cs[k].variables)

\* the lists simplify_constraints_by_subset holds at the start of each
\* iteration of its while loop and when it returns
RECURSIVE subset_chain(_)
subset_chain(cs) ==
    LET r == subset_outer(1, cs)
    IN  IF r.changed THEN {cs} \cup subset_chain(r.constraints) ELSE {cs}

Adjacent(a, b) ==
    /\ a # b
    /\ a[1] - b[1] \in {-1, 0, 1}
    /\ a[2] - b[2] \in {-1, 0, 1}

\* C15: whenever a board exists, the number stored for every non-mine cell
\* is the number of mine cells among its in-bounds 8-neighbours, also right
\* after the first-probe relocation.
C15_CountsCorrect ==
    pc # "error"
        => \A c \in Cells :
              board[c] # -1
                  => board[c] = Cardinality({n \in Cells : Adjacent(c, n) /\ board[n] = -1})

\* the mines that can be the relocated one: every cell before it in
\* row-major order is a mine or the probed cell
RelocationTargets ==
    {m \in MinesOf(board) :
        \A d \in Cells : RowMajorLess(d, m) => (board[d] = -1 \/ d = last.cell)}

\* the first probe relocated a mine and a numbered cell lies outside the
\* recomputed neighbourhoods
C15_Witness ==
    /\ last.op = "probe" /\ last.first /\ last.was_mine /\ last.ret
    /\ \E d \in Cells :
          /\ board[d] > 0
          /\ d # last.cell /\ ~Adjacent(d, last.cell)
          /\ \A m \in RelocationTargets : d # m /\ ~Adjacent(d, m)

\* the positions of the constraints linked to a position of S by a chain of
\* constraints in which neighbours share a variable
RECURSIVE Linked(_, _)
Linked(cs, S) ==
    LET T == S \cup {j \in 1 .. Len(cs) :
                        \E i \in S : cs[i].variables \cap cs[j].variables # {}}
    IN  IF T = S THEN S ELSE Linked(cs, T)

Occurrences(seq, x) == Cardinality({k \in 1 .. Len(seq) : seq[k] = x})

\* C16: the components returned by find_coupled_constraints partition the
\* constraints: each constraint is in exactly one component, linked
\* constraints are in the same component, and two components share no
\* variable.
C16_ComponentsPartition ==
    pc = "coupled"
        => /\ \A x \in Range(constraints) :
                 /\ Occurrences(constraints, x)
                    = SumOver(1 .. Len(coupled),
                              [k \in 1 .. Len(coupled) |-> Occurrences(coupled[k], x)])
                 /\ Cardinality({k \in 1 .. Len(coupled) : x \in Range(coupled[k])}) = 1
           /\ \A k \in 1 .. Len(coupled) :
                 coupled[k] # << >> /\ Range(coupled[k]) \subseteq Range(constraints)
           /\ \A i \in 1 .. Len(constraints) : \A j \in Linked(constraints, {i}) :
                 \E k \in 1 .. Len(coupled) :
                     {constraints[i], constraints[j]} \subseteq Range(coupled[k])
           /\ \A k1 \in 1 .. Len(coupled) : \A k2 \in 1 .. Len(coupled) :
                 k1 # k2 => AllVars(coupled[k1]) \cap AllVars(coupled[k2]) = {}

\* three constraints in one component, two of them linked only through the
\* third
C16_Witness ==
    /\ pc = "coupled" /\ Len(constraints) = 3 /\ Len(coupled) = 1
    /\ \E i \in 1 .. 3 : \E j \in 1 .. 3 :
          i # j /\ constraints[i].variables \cap constraints[j].variables = {}

HeuristicRules == {"corner", "edge", "interior", "random"}

\* C17: a cell returned by the heuristic step of next_move is neither
\* visible nor marked and is a variable of no live constraint.
C17_HeuristicPickUnconstrained ==
    (pc = "apply" /\ move.rule \in HeuristicRules)
        => /\ move.cell \notin visible \cup marked
           /\ \A k \in 1 .. Len(constraints) : move.cell \notin constraints[k].variables

\* C18: the cell of a move returned by next_move, probe or mark, is neither
\* visible nor marked when the move is returned.
C18_MoveOnUnresolvedCell ==
    (pc = "apply" /\ move.action \in {"probe", "mark"})
        => move.cell \notin visible \cup marked

\* the number of variable occurrences in a constraint list
VariableOccurrences(cs) ==
    SumOver(1 .. Len(cs), [k \in 1 .. Len(cs) |-> Cardinality(cs[k].variables)])

\* C19: the loop of play_minesweeper_ai ends: it never runs more iterations
\* than twice the number of cells, and every iteration of the while loop of
\* simplify_constraints_by_subset that changes the list removes at least one
\* variable occurrence from it.
C19_PlayTerminates ==
    /\ pc # "error" => move_count <= 2 * width * height
    /\ (pc = "loop" /\ ~game_over /\ ~won)
          => /\ move_count < MaxMoves
             /\ \A l \in subset_chain(simplify_constraints(constraints, visible, marked).constraints) :
                   subset_outer(1, l).changed
                       => VariableOccurrences(subset_outer(1, l).constraints)
                          < VariableOccurrences(l)

\* a game in which a probe of an already visible cell left the flags
\* unchanged, and which ended after it
C19_Witness ==
    /\ pc = "done" /\ move_count >= 3
    /\ last.op = "probe" /\ last.seen /\ last.ret

\* C20: only the thread started for a board ever calls next_move, probe,
\* mark_mine or update_constraints on that board or its solver.
C20_SingleSolverThread ==
    touched # NoTouch => touched.thread = touched.object

\* next_move has just run make_best_guess: it returned its guess, or it
\* returned None and the heuristic step or a None move followed
GuessReached ==
    \/ pc = "apply" /\ move.rule \in {"guess"} \cup HeuristicRules
    \/ pc = "done" /\ ~game_over /\ ~won /\ move = None

\* C21: whenever make_best_guess runs in solver-driven play with a positive
\* unconstrained-cell count, the expected number of mines among the
\* unconstrained cells lies between 0 and that count, so that P(safe) of an
\* unconstrained cell lies in [0, 1].
C21_UnconstrainedProbabilityValid ==
    LET vp == var_probs_of(find_coupled_constraints(constraints))
    IN  (GuessReached /\ unconstrained_count(vp, visible, marked) > 0)
            => /\ 0 <= expected_unconstrained_num(vp, marked)
               /\ expected_unconstrained_num(vp, marked)
                  <= unconstrained_count(vp, visible, marked) * prob_den(vp)

====
